---------------------------- MODULE Spec2Model ----------------------------
(* AudioRecorder (src/lib/audioRecorder.ts): the capture session's fields,   *)
(* its control calls start()/stop()/close() split at their await points, the *)
(* port.onmessage frame handler, and the parts of the platform audio engine  *)
(* the recorder drives: processing contexts, device streams, source nodes,   *)
(* worklet nodes and the frames (port messages) in flight.                   *)
EXTENDS Naturals, Sequences, FiniteSets

VARIABLES
    active,      \* this._active
    context,     \* this._context   (index into ctxs, 0 = undefined)
    stream,      \* this._stream    (index into streams, 0 = undefined)
    source,      \* this._source    (index into sources, 0 = undefined)
    recorder,    \* this._recorder  (index into recorders, 0 = undefined)
    ctxs,        \* every AudioContext constructed so far
    streams,     \* every MediaStream obtained so far (its single audio track)
    sources,     \* every MediaStreamAudioSourceNode created so far
    recorders,   \* every AudioWorkletNode created so far
    control,     \* the calls awaiting a resume/suspend promise, in request order
    procs,       \* the control calls in flight or last completed, per slot
    hist,        \* what the control calls made so far amount to (see Called)
    inflight,    \* frames posted by a worklet node and not yet dispatched
    nframes,     \* number of frames posted so far
    deliveries,  \* every invocation of the onmessage handler, in order
    log,         \* the frames the consumer callback received, in order
    query        \* the latest evaluation of AudioRecorder.isSupported

vars == <<active, context, stream, source, recorder, ctxs, streams, sources,
          recorders, control, procs, hist, inflight, nframes, deliveries, log,
          query>>

(* Bounds of the model: the control calls made and the frames produced in a  *)
(* run, with calls made one after the other and with calls that overlap.     *)
MaxCalls == 3
MaxFrames == 3
RaceCalls == 3
RaceFrames == 2

(* The slots for control calls: at most two calls run at a time. *)
Procs == {1, 2}

(* The state a freshly constructed AudioContext may settle in: running, or   *)
(* suspended when the platform's autoplay policy holds it back.              *)
CtxInitStates == {"running", "suspended"}

(* The sample rate the platform gives a context; an optional value is a     *)
(* sequence of length at most one.                                           *)
HardwareRates == {48000}
None == <<>>
Some(x) == <<x>>

(* The session and the engine objects it can reach, as one value. *)
S ==
    [active |-> active, context |-> context, stream |-> stream,
     source |-> source, recorder |-> recorder, ctxs |-> ctxs,
     streams |-> streams, sources |-> sources, recorders |-> recorders]

Set(s) ==
    /\ active' = s.active
    /\ context' = s.context
    /\ stream' = s.stream
    /\ source' = s.source
    /\ recorder' = s.recorder
    /\ ctxs' = s.ctxs
    /\ streams' = s.streams
    /\ sources' = s.sources
    /\ recorders' = s.recorders

(* get sampleRate(): this._context?.sampleRate *)
SampleRateOf(s) ==
    IF s.context = 0 THEN None ELSE Some(s.ctxs[s.context].sampleRate)

sampleRate == SampleRateOf(S)

(* The environment isSupported looks at: window.isSecureContext and the two  *)
(* names a context constructor may be found under, each one the constructor  *)
(* or undefined.                                                             *)
Environments ==
    [isSecureContext : BOOLEAN,
     AudioContext : {"undefined", "AudioContext"},
     webkitAudioContext : {"undefined", "webkitAudioContext"}]

(* JavaScript truthiness of the values isSupported can yield. *)
Truthy(v) == v \notin {"false", "undefined"}

(* Faulty variant of isSupported: the secure-context test is left out. *)
IsSupportedAnyContext(env) ==
    IF Truthy(env.AudioContext) THEN env.AudioContext
    ELSE env.webkitAudioContext

(* static get isSupported(): a && (b || c) yields a when a is falsy, else b  *)
(* when b is truthy, else c.                                                 *)
IsSupported(env) ==
    IF ~env.isSecureContext THEN "false"
    ELSE IF Truthy(env.AudioContext) THEN env.AudioContext
    ELSE env.webkitAudioContext

(* Faulty variant of the needsRecreate test: always recreate. *)
NeedsRecreateAlways(s) == TRUE

(* Faulty variant of the needsRecreate test: only the context is looked at. *)
NeedsRecreateContextOnly(s) ==
    \/ s.context = 0
    \/ s.ctxs[s.context].state = "closed"

(* start(): the needsRecreate test. *)

NeedsRecreate(s) ==
    \/ s.context = 0
    \/ s.stream = 0
    \/ s.source = 0
    \/ s.recorder = 0
    \/ s.ctxs[s.context].state = "closed"
    \/ s.streams[s.stream].readyState = "ended"

(* Faulty variant of the test guarding the clean-up call: all four handles   *)
(* must be there.                                                            *)
HasAllHandles(s) ==
    s.context # 0 /\ s.stream # 0 /\ s.source # 0 /\ s.recorder # 0

(* start(): the test guarding the clean-up call. *)
HasAnyHandle(s) ==
    s.context # 0 \/ s.stream # 0 \/ s.source # 0 \/ s.recorder # 0

(* Faulty variant of the releases: the track is not stopped. *)
ReleaseKeepsTrack(s) ==
    LET s3 == IF s.recorder = 0 THEN s
              ELSE [s EXCEPT !.recorders[s.recorder].onmessage = FALSE]
        s4 == IF s3.source = 0 THEN s3
              ELSE [s3 EXCEPT !.sources[s3.source].to = 0]
    IN IF s4.context = 0 THEN s4
       ELSE [s4 EXCEPT !.ctxs[s4.context].state = "closed",
                       !.ctxs[s4.context].rendering = FALSE,
                       !.ctxs[s4.context].closes = @ + 1]

(* Faulty variant of the releases: the port's handler is left attached. *)
ReleaseKeepsHandler(s) ==
    LET s2 == IF s.stream = 0 THEN s
              ELSE [s EXCEPT !.streams[s.stream].readyState = "ended",
                             !.streams[s.stream].stops = @ + 1]
        s4 == IF s2.source = 0 THEN s2
              ELSE [s2 EXCEPT !.sources[s2.source].to = 0]
    IN IF s4.context = 0 THEN s4
       ELSE [s4 EXCEPT !.ctxs[s4.context].state = "closed",
                       !.ctxs[s4.context].rendering = FALSE,
                       !.ctxs[s4.context].closes = @ + 1]

(* close(): the releases, from the track's stop() to the context's close();  *)
(* stops and closes count the stop() and close() calls an object received.   *)
Release(s) ==
    LET s2 == IF s.stream = 0 THEN s
              ELSE [s EXCEPT !.streams[s.stream].readyState = "ended",
                             !.streams[s.stream].stops = @ + 1]
        s3 == IF s2.recorder = 0 THEN s2
              ELSE [s2 EXCEPT !.recorders[s2.recorder].onmessage = FALSE]
        s4 == IF s3.source = 0 THEN s3
              ELSE [s3 EXCEPT !.sources[s3.source].to = 0]
    IN IF s4.context = 0 THEN s4
       ELSE [s4 EXCEPT !.ctxs[s4.context].state = "closed",
                       !.ctxs[s4.context].rendering = FALSE,
                       !.ctxs[s4.context].closes = @ + 1]

(* Faulty variant of the end of close(): this._stream is not set to          *)
(* undefined.                                                                *)
ClearKeepsStream(s) ==
    [s EXCEPT !.source = 0, !.recorder = 0, !.context = 0]

(* close(): the four handles set to undefined. *)
Clear(s) ==
    [s EXCEPT !.stream = 0, !.source = 0, !.recorder = 0, !.context = 0]

(* Faulty variant of close(): this._active is left as it is. *)
CloseKeepsActive(s) == Clear(Release(s))

(* Faulty variant of close(): this._context is not set to undefined. *)
CloseKeepsContext(s) ==
    [Release([s EXCEPT !.active = FALSE])
        EXCEPT !.stream = 0, !.source = 0, !.recorder = 0]

(* close() *)
Close(s) == Clear(Release([s EXCEPT !.active = FALSE]))

(* Faulty variant of the catch block: the handles are dropped as well,       *)
(* nothing released.                                                         *)
CatchDropsHandles(s) == Clear([s EXCEPT !.active = FALSE])

(* start(): the catch block. *)
Catch(s) == [s EXCEPT !.active = FALSE]

(* _createContext(): new AudioContext() and the assignment to this._context. *)
NewContext(s, st, rate) ==
    [s EXCEPT !.ctxs = Append(s.ctxs, [state |-> st, module |-> FALSE,
                                       rendering |-> (st = "running"),
                                       sampleRate |-> rate, closes |-> 0]),
              !.context = Len(s.ctxs) + 1]

(* _createContext(): getUserMedia resolves and this._stream is assigned. *)
NewStream(s) ==
    [s EXCEPT !.streams = Append(s.streams, [readyState |-> "live",
                                             enabled |-> TRUE, stops |-> 0]),
              !.stream = Len(s.streams) + 1]

(* _createContext(): createMediaStreamSource and the assignment. *)
NewSource(s) ==
    [s EXCEPT !.sources = Append(s.sources, [to |-> 0]),
              !.source = Len(s.sources) + 1]

(* Faulty variant of the end of _createContext(): this._active is not set. *)
NewRecorderNoActive(s) ==
    LET r == Len(s.recorders) + 1
    IN [s EXCEPT !.recorders = Append(s.recorders, [ctx |-> s.context,
                                                    onmessage |-> TRUE]),
                 !.recorder = r,
                 !.sources[s.source].to = r]

(* _createContext(): new AudioWorkletNode, port.onmessage set, _active set,  *)
(* source connected to the node.                                             *)
NewRecorder(s) ==
    LET r == Len(s.recorders) + 1
    IN [s EXCEPT !.recorders = Append(s.recorders, [ctx |-> s.context,
                                                    onmessage |-> TRUE]),
                 !.recorder = r,
                 !.active = TRUE,
                 !.sources[s.source].to = r]

(* this._context.resume() is requested: when the engine will grant it, the   *)
(* rendering thread starts at once; the state attribute follows when the     *)
(* promise settles.                                                          *)
Resume(s, ok) ==
    IF ok /\ s.ctxs[s.context].state # "closed"
    THEN [s EXCEPT !.ctxs[s.context].rendering = TRUE]
    ELSE s

(* The resume promise settles: the state attribute reads running. *)
Resumed(s, c) ==
    IF s.ctxs[c].state = "closed" THEN s
    ELSE [s EXCEPT !.ctxs[c].state = "running"]

(* The suspend promise settles: the rendering thread has stopped and the     *)
(* state attribute reads suspended.                                          *)
Suspended(s, c) ==
    IF s.ctxs[c].state = "closed" THEN s
    ELSE [s EXCEPT !.ctxs[c].state = "suspended",
                   !.ctxs[c].rendering = FALSE]

(* A control call's record: the operation, where it is suspended, the        *)
(* context its pending engine request was made on, the session as it was     *)
(* when the call was made, whether every engine step it asked for succeeded, *)
(* and how it ended.                                                         *)
NoPre ==
    [context |-> 0, stream |-> 0, source |-> 0, recorder |-> 0,
     closed |-> FALSE, ended |-> FALSE, active |-> FALSE]

PreOf(s) ==
    [context |-> s.context, stream |-> s.stream, source |-> s.source,
     recorder |-> s.recorder,
     closed |-> (s.context # 0 /\ s.ctxs[s.context].state = "closed"),
     ended |-> (s.stream # 0 /\ s.streams[s.stream].readyState = "ended"),
     active |-> s.active]

IdleProc ==
    [op |-> "none", pc |-> "idle", ctx |-> 0, pre |-> NoPre,
     engineOk |-> TRUE, res |-> "none"]

InFlight(p) == procs[p].pc \notin {"idle", "done"}

Quiet == \A p \in Procs : ~InFlight(p)

(* The slot a new call takes: the first one not holding a call in flight. *)
FreeSlot(p) ==
    /\ ~InFlight(p)
    /\ \A q \in Procs : q < p => InFlight(q)

(* isSupported not evaluated yet. *)
NoQuery ==
    [asked |-> FALSE,
     env |-> [isSecureContext |-> FALSE, AudioContext |-> "undefined",
              webkitAudioContext |-> "undefined"],
     result |-> "false"]

Init ==
    /\ active = FALSE
    /\ context = 0
    /\ stream = 0
    /\ source = 0
    /\ recorder = 0
    /\ ctxs = <<>>
    /\ streams = <<>>
    /\ sources = <<>>
    /\ recorders = <<>>
    /\ control = <<>>
    /\ procs = [p \in Procs |-> IdleProc]
    /\ hist = [calls |-> 0, scen |-> "none", stopped |-> FALSE,
               overlap |-> FALSE]
    /\ inflight = <<>>
    /\ nframes = 0
    /\ deliveries = <<>>
    /\ log = <<>>
    /\ query = NoQuery

(* The record of the calls made so far. calls counts them; stopped says that *)
(* stop() has been called and start() not since; overlap that some call was  *)
(* made while another was still running; scen follows the sequence start();  *)
(* stop(); start() made one after the other: "start1" once the first call,   *)
(* a start(), is made, "stop" once the stop() is made, "start2" while the    *)
(* second start() runs, "after" once it has completed, "other" for any other *)
(* sequence of calls.                                                        *)
Called(h, op) ==
    [calls |-> h.calls + 1,
     stopped |-> IF op = "stop" THEN TRUE
                 ELSE IF op = "start" THEN FALSE ELSE h.stopped,
     overlap |-> h.overlap \/ ~Quiet,
     scen |-> IF h.scen = "none" /\ op = "start" THEN "start1"
              ELSE IF h.scen = "start1" /\ op = "stop" /\ Quiet THEN "stop"
              ELSE IF h.scen = "stop" /\ op = "start" /\ Quiet THEN "start2"
              ELSE IF h.scen = "after" /\ Quiet THEN "after"
              ELSE "other"]

(* A step of call p has been taken: the second start() of the sequence may   *)
(* have completed.                                                           *)
Stepped(h, pr) ==
    IF h.scen = "start2" /\ pr.op = "start" /\ pr.pc = "done"
    THEN [h EXCEPT !.scen = "after"]
    ELSE h

Done(p, pr, result) ==
    [procs EXCEPT ![p] = [pr EXCEPT !.pc = "done", !.ctx = 0,
                                    !.res = result]]

(* ---------------------------------------------------------------- start() *)

(* start() from its call to its first await: the needsRecreate test, the    *)
(* clean-up of old handles and new AudioContext() on the recreate branch     *)
(* (up to the getUserMedia request), or the track re-enable and the resume   *)
(* request on the reuse branch, where reading a handle that is undefined     *)
(* throws to the caller. out is the constructor's outcome.                   *)
StartBegin(p, s, out) ==
    LET pr == [op |-> "start", pc |-> "gum", ctx |-> 0, pre |-> PreOf(s),
               engineOk |-> TRUE, res |-> "none"]
    IN IF NeedsRecreate(s)
       THEN LET s1 == IF HasAnyHandle(s) THEN Close(s) ELSE s
            IN IF ~out[1]
               THEN /\ Set(Catch(s1))
                    /\ procs' = Done(p, [pr EXCEPT !.engineOk = FALSE], "failed")
                    /\ control' = control
               ELSE /\ Set(NewContext(s1, out[2], out[3]))
                    /\ procs' = [procs EXCEPT ![p] = pr]
                    /\ control' = control
       ELSE IF s.context = 0 \/ s.stream = 0
       THEN /\ Set(s)
            /\ procs' = Done(p, pr, "raised")
            /\ control' = control
       ELSE LET s1 == [s EXCEPT !.streams[s.stream].enabled = TRUE]
            IN /\ Set(Resume(s1, out[1]))
               /\ procs' = [procs EXCEPT ![p] =
                               [pr EXCEPT !.pc = IF out[1] THEN "resume"
                                                 ELSE "resume_rej",
                                          !.engineOk = out[1],
                                          !.ctx = s.context]]
               /\ control' = Append(control, p)

(* new AudioContext() throws, or gives a context in some state and rate. *)
(* The same choice decides, on the reuse branch, whether the resume request  *)
(* will be granted.                                                          *)
CtxOutcomes ==
    {<<FALSE, "closed", 0>>} \cup ({TRUE} \X CtxInitStates \X HardwareRates)

(* The device behind the held stream may have gone away by the time start() *)
(* is called: its track has ended. Nothing but start()'s test reads it.      *)
TrackEnds(s, gone) ==
    IF gone /\ s.stream # 0
    THEN [s EXCEPT !.streams[s.stream].readyState = "ended"]
    ELSE s

StartCall(p) ==
    /\ hist.calls < MaxCalls
    /\ FreeSlot(p)
    /\ \E gone \in BOOLEAN, out \in CtxOutcomes :
          StartBegin(p, TrackEnds(S, gone), out)
    /\ hist' = Stepped(Called(hist, "start"), procs'[p])
    /\ UNCHANGED <<inflight, nframes, deliveries, log, query>>

(* _createContext() from the getUserMedia result to the addModule request:   *)
(* this._stream is assigned, then this._context.audioWorklet is read.        *)
StartGumStep(p, s, ok) ==
    LET pr == procs[p]
    IN IF ~ok
       THEN /\ Set(Catch(s))
            /\ procs' = Done(p, [pr EXCEPT !.engineOk = FALSE], "failed")
       ELSE LET s1 == NewStream(s)
            IN IF s1.context = 0
               THEN /\ Set(Catch(s1))
                    /\ procs' = Done(p, pr, "failed")
               ELSE /\ Set(s1)
                    /\ procs' = [procs EXCEPT ![p] =
                                    [pr EXCEPT !.pc = "module",
                                               !.ctx = s1.context]]

StartGum(p) ==
    /\ procs[p].pc = "gum"
    /\ \E ok \in BOOLEAN : StartGumStep(p, S, ok)
    /\ hist' = Stepped(hist, procs'[p])
    /\ UNCHANGED <<control, inflight, nframes, deliveries, log, query>>

(* _createContext() from the addModule result to its end: the source node,   *)
(* the worklet node, the handler, this._active = true, the connection. out   *)
(* names the engine step that fails, or "ok". (this._context is never a      *)
(* closed context here: close() clears the handle of the context it closes.) *)
StartModuleStep(p, s, out) ==
    LET pr == procs[p]
        bad == [pr EXCEPT !.engineOk = FALSE]
    IN IF out = "module"
       THEN /\ Set(Catch(s))
            /\ procs' = Done(p, bad, "failed")
       ELSE LET s1 == [s EXCEPT !.ctxs[pr.ctx].module = TRUE]
            IN IF s1.context = 0 \/ s1.stream = 0
               THEN /\ Set(Catch(s1))
                    /\ procs' = Done(p, pr, "failed")
               ELSE IF out = "source"
               THEN /\ Set(Catch(s1))
                    /\ procs' = Done(p, bad, "failed")
               ELSE LET s2 == NewSource(s1)
                    IN IF ~s2.ctxs[s2.context].module
                       THEN /\ Set(Catch(s2))
                            /\ procs' = Done(p, pr, "failed")
                       ELSE IF out = "node"
                       THEN /\ Set(Catch(s2))
                            /\ procs' = Done(p, bad, "failed")
                       ELSE /\ Set(NewRecorder(s2))
                            /\ procs' = Done(p, pr, "ok")

ModuleOutcomes == {"module", "source", "node", "ok"}

StartModule(p) ==
    /\ procs[p].pc = "module"
    /\ \E out \in ModuleOutcomes : StartModuleStep(p, S, out)
    /\ hist' = Stepped(hist, procs'[p])
    /\ UNCHANGED <<control, inflight, nframes, deliveries, log, query>>

(* Control requests made on one context settle in the order made. *)
NextForCtx(p) ==
    \E i \in 1..Len(control) :
        /\ control[i] = p
        /\ \A j \in 1..(i - 1) : procs[control[j]].ctx # procs[p].ctx

Settled(p) == SelectSeq(control, LAMBDA q : q # p)

(* start(), reuse branch, after await this._context.resume(): a rejection    *)
(* propagates to the caller; otherwise this._context.state is read for the   *)
(* log line and this._active is set. The promise is rejected (rej) when the  *)
(* engine could not grant the request; on a context closed meanwhile a       *)
(* request it would have granted may settle either way.                      *)
StartResumedStep(p, s, rej) ==
    LET pr == procs[p]
    IN IF rej
       THEN /\ Set(s)
            /\ procs' = Done(p, pr, "raised")
       ELSE LET s1 == Resumed(s, pr.ctx)
            IN IF s1.context = 0
               THEN /\ Set(s1)
                    /\ procs' = Done(p, pr, "raised")
               ELSE /\ Set([s1 EXCEPT !.active = TRUE])
                    /\ procs' = Done(p, pr, "ok")

StartResumed(p) ==
    /\ procs[p].pc \in {"resume", "resume_rej"}
    /\ NextForCtx(p)
    /\ \E rej \in BOOLEAN :
          /\ procs[p].pc = "resume_rej" => rej
          /\ (rej /\ procs[p].pc = "resume") =>
                ctxs[procs[p].ctx].state = "closed"
          /\ StartResumedStep(p, S, rej)
    /\ control' = Settled(p)
    /\ hist' = Stepped(hist, procs'[p])
    /\ UNCHANGED <<inflight, nframes, deliveries, log, query>>

(* ----------------------------------------------------------------- stop() *)

(* Faulty variant of stop(): this._active is set to false only when no       *)
(* suspension is awaited.                                                    *)
StopBeginLate(p, s) ==
    LET pr == [op |-> "stop", pc |-> "suspend", ctx |-> s.context,
               pre |-> NoPre, engineOk |-> TRUE, res |-> "none"]
        s1 == IF s.stream = 0 THEN s
              ELSE [s EXCEPT !.streams[s.stream].enabled = FALSE]
    IN IF s1.context # 0 /\ s1.ctxs[s1.context].state = "running"
       THEN /\ Set(s1)
            /\ procs' = [procs EXCEPT ![p] = pr]
            /\ control' = Append(control, p)
       ELSE /\ Set([s1 EXCEPT !.active = FALSE])
            /\ procs' = Done(p, pr, "ok")
            /\ control' = control

(* Faulty variant of stop(): the track is left enabled. *)
StopBeginKeepsTrack(p, s) ==
    LET pr == [op |-> "stop", pc |-> "suspend", ctx |-> s.context,
               pre |-> NoPre, engineOk |-> TRUE, res |-> "none"]
        s1 == [s EXCEPT !.active = FALSE]
    IN /\ Set(s1)
       /\ IF s1.context # 0 /\ s1.ctxs[s1.context].state = "running"
          THEN /\ procs' = [procs EXCEPT ![p] = pr]
               /\ control' = Append(control, p)
          ELSE /\ procs' = Done(p, pr, "ok")
               /\ control' = control

(* stop() from its call to its await: this._active = false, the track        *)
(* disabled, and the suspend request when the context reports running.       *)
StopBegin(p, s) ==
    LET pr == [op |-> "stop", pc |-> "suspend", ctx |-> s.context,
               pre |-> NoPre, engineOk |-> TRUE, res |-> "none"]
        s1 == [s EXCEPT !.active = FALSE]
        s2 == IF s1.stream = 0 THEN s1
              ELSE [s1 EXCEPT !.streams[s1.stream].enabled = FALSE]
    IN /\ Set(s2)
       /\ IF s2.context # 0 /\ s2.ctxs[s2.context].state = "running"
          THEN /\ procs' = [procs EXCEPT ![p] = pr]
               /\ control' = Append(control, p)
          ELSE /\ procs' = Done(p, pr, "ok")
               /\ control' = control

StopCall(p) ==
    /\ hist.calls < MaxCalls
    /\ FreeSlot(p)
    /\ StopBegin(p, S)
    /\ hist' = Stepped(Called(hist, "stop"), procs'[p])
    /\ UNCHANGED <<inflight, nframes, deliveries, log, query>>

(* stop() after await this._context.suspend(): a rejection propagates to the *)
(* caller; otherwise this._context.state is read for the log line. On a      *)
(* context closed meanwhile the promise may settle either way (rej).         *)
StopSuspendedStep(p, s, rej) ==
    LET pr == procs[p]
    IN IF rej
       THEN /\ Set(s)
            /\ procs' = Done(p, pr, "raised")
       ELSE LET s1 == Suspended(s, pr.ctx)
            IN /\ Set(s1)
               /\ IF s1.context = 0
                  THEN procs' = Done(p, pr, "raised")
                  ELSE procs' = Done(p, pr, "ok")

StopSuspended(p) ==
    /\ procs[p].pc = "suspend"
    /\ NextForCtx(p)
    /\ \E rej \in BOOLEAN :
          /\ ctxs[procs[p].ctx].state # "closed" => ~rej
          /\ StopSuspendedStep(p, S, rej)
    /\ control' = Settled(p)
    /\ hist' = Stepped(hist, procs'[p])
    /\ UNCHANGED <<inflight, nframes, deliveries, log, query>>

(* ---------------------------------------------------------------- close() *)

(* close() is synchronous: the whole method is one step. *)
CloseCall(p) ==
    /\ hist.calls < MaxCalls
    /\ FreeSlot(p)
    /\ Set(Close(S))
    /\ procs' = Done(p, [op |-> "close", pc |-> "done", ctx |-> 0,
                         pre |-> PreOf(S), engineOk |-> TRUE,
                         res |-> "none"], "ok")
    /\ hist' = Stepped(Called(hist, "close"), procs'[p])
    /\ UNCHANGED <<control, inflight, nframes, deliveries, log, query>>

(* ------------------------------------------------------------- the engine *)

RemoveAt(q, i) == SubSeq(q, 1, i - 1) \o SubSeq(q, i + 1, Len(q))

(* A worklet node renders while its context runs and a source feeds it. *)
Rendering(r) ==
    /\ ctxs[recorders[r].ctx].rendering
    /\ \E i \in 1..Len(sources) : sources[i].to = r

(* The worklet node posts one frame on its port. The frame carries the point *)
(* of the sequence start(); stop(); start() at which it was produced.        *)
EngineEmit ==
    /\ nframes < MaxFrames
    /\ \E r \in 1..Len(recorders) :
          /\ Rendering(r)
          /\ inflight' = Append(inflight, [id |-> nframes + 1, port |-> r,
                                           at |-> hist.scen])
    /\ nframes' = nframes + 1
    /\ UNCHANGED <<active, context, stream, source, recorder, ctxs, streams,
                   sources, recorders, control, procs, hist, deliveries, log,
                   query>>

(* Faulty variant of the handler: no gate on this._active. *)
OnMessageUngated(f, act, lg) == Append(lg, f)

(* Faulty variant of the handler: the callback is invoked twice. *)
OnMessageTwice(f, act, lg) ==
    IF ~act THEN lg ELSE Append(Append(lg, f), f)

(* The port.onmessage handler: the gate on this._active, then the consumer   *)
(* callback. What it returns is the consumer's log.                          *)
OnMessage(f, act, lg) ==
    IF ~act THEN lg ELSE Append(lg, f)

(* Frames posted on one port are dispatched in the order posted. *)
FirstForPort(i) ==
    \A j \in 1..(i - 1) : inflight[j].port # inflight[i].port

(* The engine dispatches a frame to its port: dropped when the port has no   *)
(* handler, otherwise the handler runs.                                      *)
Deliver ==
    /\ \E i \in 1..Len(inflight) :
          /\ FirstForPort(i)
          /\ LET f == inflight[i]
             IN /\ inflight' = RemoveAt(inflight, i)
                /\ IF recorders[f.port].onmessage
                   THEN /\ log' = OnMessage(f, active, log)
                        /\ deliveries' = Append(deliveries,
                              [id |-> f.id, act |-> active,
                               stopped |-> hist.stopped])
                   ELSE UNCHANGED <<log, deliveries>>
    /\ UNCHANGED <<active, context, stream, source, recorder, ctxs, streams,
                   sources, recorders, control, procs, hist, nframes, query>>

(* AudioRecorder.isSupported is read, in some environment, at any point. *)
IsSupportedCall ==
    /\ \E env \in Environments :
          query' = [asked |-> TRUE, env |-> env, result |-> IsSupported(env)]
    /\ UNCHANGED <<active, context, stream, source, recorder, ctxs, streams,
                   sources, recorders, control, procs, hist, inflight,
                   nframes, deliveries, log>>

(* ------------------------------------------------------ the specifications *)

(* Control calls made one after the other, each awaited before the next. *)
SerialStart == Quiet /\ \E p \in Procs : StartCall(p)
SerialStop == Quiet /\ \E p \in Procs : StopCall(p)
SerialClose == Quiet /\ \E p \in Procs : CloseCall(p)

Step ==
    \/ \E p \in Procs : StartGum(p)
    \/ \E p \in Procs : StartModule(p)
    \/ \E p \in Procs : StartResumed(p)
    \/ \E p \in Procs : StopSuspended(p)
    \/ EngineEmit
    \/ Deliver

Next == SerialStart \/ SerialStop \/ SerialClose \/ Step

Spec == Init /\ [][Next]_vars

(* Control calls made without awaiting the previous ones. *)
RaceStart == hist.calls < RaceCalls /\ \E p \in Procs : StartCall(p)
RaceStop == hist.calls < RaceCalls /\ \E p \in Procs : StopCall(p)
RaceClose == hist.calls < RaceCalls /\ \E p \in Procs : CloseCall(p)
RaceEmit == nframes < RaceFrames /\ EngineEmit

RaceNext ==
    \/ RaceStart
    \/ RaceStop
    \/ RaceClose
    \/ \E p \in Procs : StartGum(p)
    \/ \E p \in Procs : StartModule(p)
    \/ \E p \in Procs : StartResumed(p)
    \/ \E p \in Procs : StopSuspended(p)
    \/ RaceEmit
    \/ Deliver

RaceSpec == Init /\ [][RaceNext]_vars

(* Control calls made one after the other, and isSupported read in between   *)
(* and during them; no frames are produced.                                  *)
QueryNext ==
    \/ SerialStart
    \/ SerialStop
    \/ SerialClose
    \/ \E p \in Procs : StartGum(p)
    \/ \E p \in Procs : StartModule(p)
    \/ \E p \in Procs : StartResumed(p)
    \/ \E p \in Procs : StopSuspended(p)
    \/ IsSupportedCall

QuerySpec == Init /\ [][QueryNext]_vars

(* ------------------------------------------------------------- properties *)

Ids(q) == [k \in 1..Len(q) |-> q[k].id]

(* C1: the consumer is invoked for a delivered frame only if active was true *)
(* at that delivery: every frame in the consumer's log was delivered while   *)
(* active, and a frame delivered while inactive is in no log entry, however  *)
(* the control calls and the deliveries interleave or overlap.               *)
C1_ForwardedOnlyWhileActive ==
    /\ \A k \in 1..Len(log) :
          \E j \in 1..Len(deliveries) :
              deliveries[j].id = log[k].id /\ deliveries[j].act
    /\ \A j \in 1..Len(deliveries) :
          ~deliveries[j].act =>
              \A k \in 1..Len(log) : log[k].id # deliveries[j].id

(* C1 witness: with overlapping control calls, one frame was delivered while *)
(* inactive and discarded and another while active and forwarded.            *)
C1_Witness ==
    /\ hist.overlap
    /\ \E j \in 1..Len(deliveries) : ~deliveries[j].act
    /\ \E j \in 1..Len(deliveries) : deliveries[j].act
    /\ Len(log) = 1
    /\ Len(deliveries) = 2

(* C2: in start(); stop(); start(), made one after the other, no frame the   *)
(* engine produced between the stop() call and the completion of the second  *)
(* start() reaches the consumer.                                             *)
C2_NoFrameFromStopWindow ==
    \A k \in 1..Len(log) : log[k].at \notin {"stop", "start2"}

(* What the properties below say of a call and of the session. *)
StartDone(p) == procs[p].op = "start" /\ procs[p].pc = "done"

Complete ==
    context # 0 /\ stream # 0 /\ source # 0 /\ recorder # 0

Absent ==
    context = 0 /\ stream = 0 /\ source = 0 /\ recorder = 0

(* The handles differ from the ones held when the call was made. *)
Fresh(pre) ==
    /\ Complete
    /\ context # pre.context
    /\ stream # pre.stream
    /\ source # pre.source
    /\ recorder # pre.recorder

Kept(pre) ==
    /\ context = pre.context
    /\ stream = pre.stream
    /\ source = pre.source
    /\ recorder = pre.recorder

(* The handles held when the call was made have been released. *)
TornDown(pre) ==
    /\ pre.context # 0 => ctxs[pre.context].state = "closed"
    /\ pre.stream # 0 => streams[pre.stream].readyState = "ended"
    /\ pre.source # 0 => sources[pre.source].to = 0
    /\ pre.recorder # 0 => ~recorders[pre.recorder].onmessage

C4_FailedStartHoldsNothing ==
    \A p \in Procs :
        (StartDone(p) /\ procs[p].res = "failed") => (~active /\ Absent)

(* C5: from the first step of stop() until start() is next called, active is *)
(* false, and every frame delivered in that interval was discarded.          *)
C5_InactiveFromStopToStart ==
    /\ hist.stopped => ~active
    /\ \A j \in 1..Len(deliveries) :
          deliveries[j].stopped =>
              /\ ~deliveries[j].act
              /\ \A k \in 1..Len(log) : log[k].id # deliveries[j].id

(* C5 witness: a frame is dispatched and discarded while stop() still awaits *)
(* the suspension.                                                           *)
C5_Witness ==
    /\ procs[1].op = "stop"
    /\ procs[1].pc = "suspend"
    /\ \E j \in 1..Len(deliveries) : deliveries[j].stopped
    /\ ~active

CloseStep ==
    /\ hist'.calls = hist.calls + 1
    /\ \E p \in Procs : FreeSlot(p) /\ procs'[p].op = "close"

(* C7: close(), in whatever state it is called, leaves active false,         *)
(* sampleRate undefined and the four handles absent; called on a session     *)
(* that is inactive and holds nothing, it changes nothing.                   *)
C7_CloseAlwaysClears ==
    [][CloseStep =>
        /\ ~active' /\ context' = 0 /\ stream' = 0 /\ source' = 0
        /\ recorder' = 0
        /\ SampleRateOf([context |-> context', ctxs |-> ctxs']) = None
        /\ (~active /\ Absent) =>
              UNCHANGED <<active, context, stream, source, recorder, ctxs,
                          streams, sources, recorders>>]_vars

(* C7 witness: close() has been called after a failed start() that had left  *)
(* a context but no stream.                                                  *)
C7_Witness ==
    /\ procs[1].op = "close"
    /\ procs[1].pre.context # 0
    /\ procs[1].pre.stream = 0
    /\ Absent

(* C8: a start() whose engine steps all succeeded has completed with active  *)
(* true and sampleRate defined.                                              *)
C8_SuccessfulStartIsActive ==
    \A p \in Procs :
        (StartDone(p) /\ procs[p].engineOk) =>
            (active /\ sampleRate # None)

(* C8 witness: such a start(), called on a suspended session. *)
C8_Witness ==
    /\ StartDone(1)
    /\ procs[1].engineOk
    /\ procs[1].pre.context # 0
    /\ ~procs[1].pre.active
    /\ sampleRate = Some(48000)

(* C9: whatever failed before, a start() whose engine steps all succeed ends *)
(* with the session active on a complete, working bundle.                    *)
C9_StartRecovers ==
    \A p \in Procs :
        (StartDone(p) /\ procs[p].engineOk) =>
            /\ active
            /\ Complete
            /\ ctxs[context].state # "closed"
            /\ streams[stream].readyState = "live"
            /\ streams[stream].enabled
            /\ recorders[recorder].onmessage
            /\ sources[source].to = recorder

(* C9 witness: such a start(), called after a failed start() had left a      *)
(* context without a stream.                                                 *)
C9_Witness ==
    /\ StartDone(1)
    /\ procs[1].engineOk
    /\ procs[1].pre.context # 0
    /\ procs[1].pre.stream = 0
    /\ active

(* C10: with the control calls made one after the other, the consumer's log  *)
(* is exactly the frames delivered while active, in delivery order, each     *)
(* once.                                                                     *)
C10_LogIsActiveDeliveries ==
    Ids(log) = Ids(SelectSeq(deliveries, LAMBDA d : d.act))

(* C10 witness: start, F1, stop, F2, start, F3 with the log [F1, F3]. *)
C10_Witness ==
    /\ Ids(log) = <<1, 3>>
    /\ Ids(deliveries) = <<1, 2, 3>>
    /\ hist.scen = "after"


(* C11: isSupported depends on the environment alone: it is false whenever   *)
(* the context is not secure, whatever constructors the engine offers, in a  *)
(* secure context it is truthy exactly when one of the two constructors is   *)
(* there, and reading it changes nothing of the session or the engine.       *)
C11_IsSupportedPure ==
    [][query' # query =>
        /\ ~query'.env.isSecureContext => query'.result = "false"
        /\ query'.env.isSecureContext =>
              (Truthy(query'.result) <=>
                  \/ query'.env.AudioContext # "undefined"
                  \/ query'.env.webkitAudioContext # "undefined")
        /\ UNCHANGED <<active, context, stream, source, recorder, ctxs,
                       streams, sources, recorders, control, procs, hist,
                       inflight, nframes, deliveries, log>>]_vars

(* C11 witness: isSupported was read as false in a context that is not       *)
(* secure although both constructors are there, while the session was        *)
(* active.                                                                   *)
C11_Witness ==
    /\ query.asked
    /\ ~query.env.isSecureContext
    /\ query.env.AudioContext = "AudioContext"
    /\ query.env.webkitAudioContext = "webkitAudioContext"
    /\ query.result = "false"
    /\ active


(* C12: with the calls made one after the other and start() failing or       *)
(* succeeding at any step, no device stream has its track stopped and no     *)
(* context is closed more than once, and once a close() has been made, every *)
(* stream obtained so far was stopped exactly once and every context         *)
(* constructed so far closed exactly once.                                   *)
C12_ReleasedExactlyOnce ==
    /\ \A c \in 1..Len(ctxs) : ctxs[c].closes <= 1
    /\ \A i \in 1..Len(streams) : streams[i].stops <= 1
    /\ (Quiet /\ procs[1].op = "close") =>
          /\ \A c \in 1..Len(ctxs) : ctxs[c].closes = 1
          /\ \A i \in 1..Len(streams) : streams[i].stops = 1

(* C12 witness: close() was called last, after two start() calls of which    *)
(* one got no stream; both contexts and the stream were released once.       *)
C12_Witness ==
    /\ Quiet
    /\ procs[1].op = "close"
    /\ hist.calls = 3
    /\ Len(ctxs) = 2
    /\ Len(streams) = 1
    /\ \A c \in 1..Len(ctxs) : ctxs[c].closes = 1
    /\ streams[1].stops = 1


(* C13: with the calls made one after the other, at most one stream obtained *)
(* is not yet stopped and at most one context constructed is not yet closed, *)
(* and they are the ones the session holds; while a start() waits for the    *)
(* device stream on its new context, every stream obtained earlier has been  *)
(* stopped and every earlier context closed.                                 *)
C13_OneBundleAtATime ==
    /\ Cardinality({c \in 1..Len(ctxs) : ctxs[c].state # "closed"}) <= 1
    /\ Cardinality({i \in 1..Len(streams) : streams[i].stops = 0}) <= 1
    /\ \A c \in 1..Len(ctxs) : ctxs[c].state # "closed" => c = context
    /\ \A i \in 1..Len(streams) : streams[i].stops = 0 => i = stream
    /\ \A p \in Procs :
          procs[p].pc = "gum" =>
              /\ \A i \in 1..Len(streams) : streams[i].stops = 1
              /\ \A c \in 1..Len(ctxs) :
                    c # Len(ctxs) => ctxs[c].state = "closed"

(* C13 witness: a start() called on a session holding a stream and a context *)
(* waits for its new stream; the old stream is stopped, the old context      *)
(* closed, the new context open.                                             *)
C13_Witness ==
    /\ procs[1].op = "start"
    /\ procs[1].pc = "gum"
    /\ procs[1].pre.context = 1
    /\ procs[1].pre.stream = 1
    /\ Len(ctxs) = 2
    /\ ctxs[1].state = "closed"
    /\ streams[1].stops = 1
    /\ ctxs[2].state # "closed"
    /\ context = 2


(* C14: between calls made one after the other, sampleRate is defined        *)
(* exactly when the session holds all four handles and the context is not    *)
(* closed; so it is undefined after a start() that failed.                   *)
C14_SampleRateIffBundle ==
    Quiet =>
        (sampleRate # None <=>
            (Complete /\ ctxs[context].state # "closed"))


(* The frames dispatched to a port without a handler: posted, no longer in   *)
(* flight, and no invocation of the handler.                                 *)
Dropped == nframes - Len(inflight) - Len(deliveries)

(* C15: a frame is forwarded to the consumer only if the worklet node that   *)
(* posted it is the one the session holds and its context is not closed: a   *)
(* frame from a bundle that close(), or the clean-up of a recreating         *)
(* start(), has torn down is never forwarded, not even when it is dispatched *)
(* after a later start() has made the session active with a new bundle.      *)
C15_TornDownFrameNotForwarded ==
    [][Len(log') > Len(log) =>
        LET f == log'[Len(log')]
        IN /\ f.port = recorder
           /\ ctxs[recorders[f.port].ctx].state # "closed"]_vars

(* C15 witness: the one frame posted came from the first bundle, which was   *)
(* then torn down; it was dispatched and dropped, and the session is active  *)
(* with a second bundle and the consumer has received nothing.               *)
C15_Witness ==
    /\ nframes = 1
    /\ Dropped = 1
    /\ log = <<>>
    /\ active
    /\ recorder = 2
    /\ ~recorders[1].onmessage
    /\ ctxs[recorders[1].ctx].state = "closed"
    /\ StartDone(1)


(* C16: stop() returns only after a grace wait that follows the suspension,  *)
(* so that every frame posted before the suspension has been dispatched by   *)
(* then: once stop() has returned no frame is left in flight.                *)
C16_NoFrameInFlightAfterStop ==
    \A p \in Procs :
        (procs[p].op = "stop" /\ procs[p].pc = "done") => inflight = <<>>


(* A step of stop(): its call, or its continuation after the suspension. *)
StopCallStep ==
    /\ hist'.calls = hist.calls + 1
    /\ \E p \in Procs : FreeSlot(p) /\ procs'[p].op = "stop"

StopEndStep ==
    \E p \in Procs :
        /\ procs[p].op = "stop"
        /\ procs[p].pc = "suspend"
        /\ procs'[p].pc = "done"

StopReturned ==
    \E p \in Procs : procs'[p].op = "stop" /\ procs'[p].pc = "done"

(* C17: with the calls made one after the other, no step of stop() changes   *)
(* which handles are held and stop() does not raise; called on a session     *)
(* holding nothing it makes no engine call and returns at once, leaving the  *)
(* session inactive and holding nothing; when it has returned on a session   *)
(* holding the bundle, the track is disabled and the context neither reports *)
(* running nor renders.                                                      *)
C17_StopKeepsHandles ==
    [][(StopCallStep \/ StopEndStep) =>
        /\ UNCHANGED <<context, stream, source, recorder>>
        /\ ~active'
        /\ \A p \in Procs :
              procs'[p].op = "stop" => procs'[p].res # "raised"
        /\ (StopCallStep /\ Absent) =>
              /\ StopReturned
              /\ UNCHANGED <<ctxs, streams, sources, recorders, control>>
        /\ (StopReturned /\ Complete) =>
              /\ ~streams'[stream].enabled
              /\ ctxs'[context].state # "running"
              /\ ~ctxs'[context].rendering]_vars

(* C17 witness: stop() has returned after awaiting the suspension, on the    *)
(* session the first start() had made active; the handles are the ones that  *)
(* start() created, the track is disabled and the context suspended.         *)
C17_Witness ==
    /\ hist.scen = "stop"
    /\ procs[1].op = "stop"
    /\ procs[1].pc = "done"
    /\ procs[1].res = "ok"
    /\ ~active
    /\ context = 1 /\ stream = 1 /\ source = 1 /\ recorder = 1
    /\ ~streams[1].enabled
    /\ ctxs[1].state = "suspended"
    /\ ctxs[1].closes = 0
    /\ Len(deliveries) > 0


(* A stream obtained, never stopped and no longer held; a worklet node whose *)
(* handler is attached and which is no longer held.                          *)
LostStream(i) == streams[i].stops = 0 /\ i # stream

LostRecorder(r) == recorders[r].onmessage /\ r # recorder

(* C18: nothing orders overlapping start() calls, and a handle one call      *)
(* acquired can be overwritten by the other's without having been released:  *)
(* a stream never stopped and no longer held, or a node no longer held whose *)
(* handler is still attached, is found, and only after calls that            *)
(* overlapped.                                                               *)
C18_OverwriteOnlyWhenOverlapping ==
    /\ (\E i \in 1..Len(streams) : LostStream(i)) => hist.overlap
    /\ (\E r \in 1..Len(recorders) : LostRecorder(r)) => hist.overlap

(* C18 witness: two start() calls, the second made while the first awaited   *)
(* its stream, have both completed; the first call's stream is live, never   *)
(* stopped and no longer held, the first node is no longer held, and a frame *)
(* it posted was forwarded to the consumer.                                  *)
C18_Witness ==
    /\ hist.calls = 2
    /\ StartDone(1) /\ StartDone(2)
    /\ stream = 2
    /\ LostStream(1)
    /\ streams[1].readyState = "live"
    /\ recorder = 2
    /\ LostRecorder(1)
    /\ \E k \in 1..Len(log) : log[k].port = 1


(* C19: close() does not cancel a start() in flight: a start() that awaited  *)
(* its stream when close() was called still assigns the stream afterwards.   *)
(* So with no call in flight the session can hold a stream and no context;   *)
(* whenever it does, calls have overlapped, the stream has never been        *)
(* stopped, and active is false.                                             *)
C19_StreamWithoutContext ==
    (Quiet /\ stream # 0 /\ context = 0) =>
        /\ hist.overlap
        /\ streams[stream].stops = 0
        /\ streams[stream].readyState = "live"
        /\ ~active

(* C19 witness: start() was called, close() was called while it awaited the  *)
(* device stream, and both have finished: the stream obtained after close()  *)
(* is held and live, the context close() closed is gone, active is false.    *)
C19_Witness ==
    /\ hist.calls = 2
    /\ procs[1].op = "start" /\ procs[1].pc = "done"
    /\ procs[2].op = "close"
    /\ stream = 1
    /\ streams[1].stops = 0
    /\ streams[1].readyState = "live"
    /\ context = 0
    /\ ctxs[1].state = "closed"
    /\ source = 0 /\ recorder = 0
    /\ ~active


(* C20: when stop() was the last call made, also one made while a start()    *)
(* was suspended at an await, then once no call is in flight active is       *)
(* false: a start() in flight does not make the session active after stop()  *)
(* has returned.                                                             *)
C20_InactiveAfterOverlappingStop ==
    (Quiet /\ hist.stopped) => ~active

=============================================================================
